---- MODULE Spec2Model ----
(***************************************************************************)
(* Model of scales_driver_async: the transport Connector (connector.py)   *)
(* and the two scale drivers CASType6 and MassK1C (drivers.py), called   *)
(* by concurrent callers such as the poll tasks of example.py.            *)
(*                                                                         *)
(* Bytes are naturals in 0..255, byte strings are sequences of bytes.     *)
(* Coroutines are cut at their await points and where they leave the      *)
(* device lock: every action is code a call runs without suspending.      *)
(***************************************************************************)
EXTENDS Integers, Sequences, FiniteSets, TLC

(***************************************************************************)
(* Bounds of the model.                                                    *)
(***************************************************************************)
\* calls in progress on the driver at once, waiting for the lock or past it
MaxCalls == 2
\* number of requests the device has received and not yet answered
MaxOwed == 1
\* unread bytes a stream may hold when the device sends another reply
MaxUnread == 1
\* longest byte string drawn as an input of calc_crc
MaxDataLen == 3
\* driver instances built by the application
NDevices == 2
\* poll tasks main_coro starts, one per entry of its list of devices
MaxPollers == 3

(***************************************************************************)
(* Bit arithmetic on naturals.                                             *)
(***************************************************************************)
RECURSIVE Xor(_, _)
Xor(a, b) ==
    IF a = 0 THEN b
    ELSE IF b = 0 THEN a
    ELSE 2 * Xor(a \div 2, b \div 2) + ((a + b) % 2)

Bit(x, k) == (x \div (2 ^ k)) % 2

\* x with bit k inverted
FlipBit(x, k) == IF Bit(x, k) = 1 THEN x - 2 ^ k ELSE x + 2 ^ k

Min(a, b) == IF a < b THEN a ELSE b
Max(a, b) == IF a > b THEN a ELSE b

(***************************************************************************)
(* Python slicing, response[start:stop] with 0-based bounds; a negative   *)
(* bound counts from the end and every bound is clamped to the length.    *)
(***************************************************************************)
PyIndex(i, L) == IF i < 0 THEN Max(L + i, 0) ELSE Min(i, L)

PySlice(s, start, stop) ==
    LET i == PyIndex(start, Len(s))
        j == PyIndex(stop, Len(s))
    IN  IF j <= i THEN << >> ELSE SubSeq(s, i + 1, j)

\* s[start:]
PySliceFrom(s, start) ==
    LET i == PyIndex(start, Len(s))
    IN  IF Len(s) <= i THEN << >> ELSE SubSeq(s, i + 1, Len(s))

(***************************************************************************)
(* ScalesDriver: units and statuses.                                       *)
(***************************************************************************)
UNIT_GR == 0
UNIT_KG == 1
UNIT_LB == 2
UNIT_OZ == 3

\* the keys of UNIT_RATIO
RecognizedUnits == {UNIT_GR, UNIT_KG, UNIT_LB, UNIT_OZ}

STATUS_UNSTABLE == 0
STATUS_STABLE == 1
STATUS_OVERLOAD == 3

(***************************************************************************)
(* Outcome of a call or of a pure step: kind "ok" or the exception class, *)
(* why names the raise site, val is the value returned.                   *)
(***************************************************************************)
Ok(v) == [kind |-> "ok", why |-> "", val |-> v]
Raise(kind, why) == [kind |-> kind, why |-> why, val |-> << >>]
NoResult == [kind |-> "none", why |-> "", val |-> << >>]

(***************************************************************************)
(* CASType6: constants, BCC and response validation.                      *)
(***************************************************************************)
CAS_CMD_ACK == <<6>>
CAS_CMD_DC1 == <<17>>
CAS_CMD_ENQ == <<5>>
RESPONSE_WRAP == <<1, 2, 3, 4>>
CAS_RESPONSE_LEN == 15

\* the loop of calc_bcc from byte i on (the bound variable holds the running
\* value, so that it is computed once per byte)
RECURSIVE BccFold(_, _, _)
BccFold(data, i, bcc) ==
    IF i > Len(data) THEN bcc
    ELSE CHOOSE r \in {BccFold(data, i + 1, b) : b \in {Xor(bcc, data[i])}} : TRUE

\* a checksum that leaves the last byte out
CalcBccButLast(data) == << BccFold(SubSeq(data, 1, Len(data) - 1), 1, 0) >>

\* calc_bcc: the XOR of the bytes, as one byte
CalcBcc(data) == << BccFold(data, 1, 0) >>

\* a validation that looks at the wrap only
CasCheckResponseWrapOnly(response) ==
    LET wrap == PySlice(response, 0, 2) \o PySlice(response, 13, 15)
    IN  IF wrap # RESPONSE_WRAP THEN Raise("ScalesError", "packet wrap")
        ELSE Ok(PySlice(response, 2, 12))

CasCheckResponse(response) ==
    LET wrap == PySlice(response, 0, 2) \o PySlice(response, 13, 15)
        payload == PySlice(response, 2, 12)
        received_bcc == CalcBcc(payload)
        computed_bcc == PySlice(response, 12, 13)
    IN  IF wrap # RESPONSE_WRAP THEN Raise("ScalesError", "packet wrap")
        ELSE IF received_bcc # computed_bcc THEN Raise("ScalesError", "bcc")
        ELSE Ok(payload)

(***************************************************************************)
(* MassK1C: constants, CRC, request frame and response validation.        *)
(***************************************************************************)
HEADER == <<248, 85, 206>>
CMD_POLL == <<0>>
CMD_GET_WEIGHT == <<160>>
Commands == {CMD_POLL, CMD_GET_WEIGHT}

CmdAck(command) == IF command = CMD_POLL THEN <<1>> ELSE <<16>>
CmdResponseLen(command) == IF command = CMD_POLL THEN 34 ELSE 14

POLY == 4129
WORD == 65536

\* the inner loop of calc_crc, n rounds left; only bit 15 of temp ^ accumulator
\* is read and shifts never carry downwards, so the words are kept to 16 bits
RECURSIVE CrcRounds(_, _, _)
CrcRounds(temp, accumulator, n) ==
    IF n = 0 THEN accumulator
    ELSE CrcRounds((temp * 2) % WORD,
                   IF Bit(Xor(temp, accumulator), 15) = 1
                       THEN Xor((accumulator * 2) % WORD, POLY)
                       ELSE (accumulator * 2) % WORD,
                   n - 1)

\* one byte of the table-driven CRC-16/XMODEM: the byte enters at the top
CrcByteXmodem(crc, byte) ==
    Xor(CrcRounds(Xor(crc, byte * 256) - (crc % 256), 0, 8), (crc * 256) % WORD)

\* one pass of the outer loop: crc = accumulator ^ (crc << 8) ^ byte
CrcByte(crc, byte) ==
    Xor(Xor(CrcRounds(crc - (crc % 256), 0, 8), (crc * 256) % WORD), byte)

\* the outer loop of calc_crc from byte i on
RECURSIVE CrcFold(_, _, _)
CrcFold(data, i, crc) ==
    IF i > Len(data) THEN crc
    ELSE CHOOSE r \in {CrcFold(data, i + 1, c) : c \in {CrcByte(crc, data[i])}} : TRUE

\* int.to_bytes(length=2, byteorder='little')
ToBytesLE2(x) == << x % 256, (x \div 256) % 256 >>
\* int.to_bytes(length=2): the byte order defaults to 'big'
ToBytesBE2(x) == << (x \div 256) % 256, x % 256 >>

CalcCrc(data) == ToBytesLE2(CrcFold(data, 1, 0) % WORD)

\* the request exec_command writes
BuildFrame(command) ==
    LET data == HEADER \o ToBytesBE2(Len(command)) \o command
    IN  data \o CalcCrc(data)

\* a validation that does not look at the acknowledgement
MassKCheckResponseNoAck(command, response) ==
    LET payload == PySlice(response, 5, -2)
    IN  IF PySlice(response, 0, 3) # HEADER THEN Raise("ScalesError", "header")
        ELSE IF CalcCrc(payload) # PySliceFrom(response, -2)
            THEN Raise("ScalesError", "CRC")
        ELSE Ok(payload)

\* a validation that compares the low CRC byte only
MassKCheckResponseLowCrc(command, response) ==
    LET header == PySlice(response, 0, 3)
        payload == PySlice(response, 5, -2)
        computed_crc == CalcCrc(payload)
        received_crc == PySliceFrom(response, -2)
        ack == PySlice(response, 5, 6)
    IN  IF header # HEADER THEN Raise("ScalesError", "header")
        ELSE IF PySlice(computed_crc, 0, 1) # PySlice(received_crc, 0, 1)
            THEN Raise("ScalesError", "CRC")
        ELSE IF ack # CmdAck(command) THEN Raise("ScalesError", "ACK")
        ELSE Ok(payload)

MassKCheckResponse(command, response) ==
    LET header == PySlice(response, 0, 3)
        payload == PySlice(response, 5, -2)
        computed_crc == CalcCrc(payload)
        received_crc == PySliceFrom(response, -2)
        ack == PySlice(response, 5, 6)
    IN  IF header # HEADER THEN Raise("ScalesError", "header")
        ELSE IF computed_crc # received_crc THEN Raise("ScalesError", "CRC")
        ELSE IF ack # CmdAck(command) THEN Raise("ScalesError", "ACK")
        ELSE Ok(payload)

(***************************************************************************)
(* The messages of the ScalesError check_response raises:                 *)
(* INVALID_RESPONSE_MSG.format(subject=, received=, expected=), kept as   *)
(* the three values the template is filled with.                          *)
(***************************************************************************)
\* bytes.hex(HEX_SEP): two lowercase hexadecimal digits for every byte, as
\* character codes, with a colon between bytes
RECURSIVE Hex(_)
Hex(bytes) ==
    LET digit(n) == IF n < 10 THEN 48 + n ELSE 87 + n
    IN  IF bytes = << >> THEN << >>
        ELSE <<digit(Head(bytes) \div 16), digit(Head(bytes) % 16)>>
                 \o (IF Len(bytes) = 1 THEN << >> ELSE <<58>> \o Hex(Tail(bytes)))

InvalidResponse(subject, received, expected) ==
    [subject |-> subject, received |-> received, expected |-> expected]

\* the message of CASType6.check_response, empty when it raises nothing
CasCheckMessage(response) ==
    LET wrap == PySlice(response, 0, 2) \o PySlice(response, 13, 15)
        payload == PySlice(response, 2, 12)
        received_bcc == CalcBcc(payload)
        computed_bcc == PySlice(response, 12, 13)
    IN  IF wrap # RESPONSE_WRAP
            THEN InvalidResponse("packet wrap", Hex(wrap), Hex(RESPONSE_WRAP))
        ELSE IF received_bcc # computed_bcc
            THEN InvalidResponse("bcc", Hex(received_bcc), Hex(computed_bcc))
        ELSE InvalidResponse("", << >>, << >>)

\* the message of MassK1C.check_response, empty when it raises nothing
MassKCheckMessage(command, response) ==
    LET header == PySlice(response, 0, 3)
        payload == PySlice(response, 5, -2)
        computed_crc == CalcCrc(payload)
        received_crc == PySliceFrom(response, -2)
        ack == PySlice(response, 5, 6)
        expected_ack == CmdAck(command)
    IN  IF header # HEADER
            THEN InvalidResponse("header", Hex(header), Hex(HEADER))
        ELSE IF computed_crc # received_crc
            THEN InvalidResponse("CRC", Hex(received_crc), Hex(computed_crc))
        ELSE IF ack # expected_ack
            THEN InvalidResponse("ACK", Hex(ack), Hex(expected_ack))
        ELSE InvalidResponse("", << >>, << >>)

(***************************************************************************)
(* Decimal(bytes.decode(errors='ignore')): kind "number" with the sign,   *)
(* the coefficient and the number of digits after the point (less the     *)
(* exponent); "inf", "nan", "snan" for the tokens Decimal accepts;        *)
(* "error" where it raises DecimalException.  A byte above 127 is taken   *)
(* to be dropped by decode.                                                *)
(***************************************************************************)
IsDigit(c) == c >= 48 /\ c <= 57
IsSpace(c) == c = 32 \/ (c >= 9 /\ c <= 13) \/ (c >= 28 /\ c <= 31)
Lower(c) == IF c >= 65 /\ c <= 90 THEN c + 32 ELSE c

RECURSIVE LStrip(_)
LStrip(s) == IF s # << >> /\ IsSpace(Head(s)) THEN LStrip(Tail(s)) ELSE s

RECURSIVE RStrip(_)
RStrip(s) ==
    IF s # << >> /\ IsSpace(s[Len(s)]) THEN RStrip(SubSeq(s, 1, Len(s) - 1)) ELSE s

RECURSIVE DigitsValue(_, _)
DigitsValue(s, acc) ==
    IF s = << >> THEN acc ELSE DigitsValue(Tail(s), 10 * acc + (Head(s) - 48))

AllDigits(s) == \A i \in 1..Len(s) : IsDigit(s[i])

\* the tokens Decimal accepts besides numbers, in any case: "inf", "infinity",
\* "nan" and "snan", the last two with optional digits; "" for anything else
SpecialToken(s) ==
    LET low == [i \in 1..Len(s) |-> Lower(s[i])]
        nan == <<110, 97, 110>>
    IN  IF low = <<105, 110, 102>> \/ low = <<105, 110, 102, 105, 110, 105, 116, 121>>
            THEN "inf"
        ELSE IF Len(low) >= 3 /\ SubSeq(low, 1, 3) = nan
                /\ AllDigits(SubSeq(low, 4, Len(low)))
            THEN "nan"
        ELSE IF Len(low) >= 4 /\ low[1] = 115 /\ SubSeq(low, 2, 4) = nan
                /\ AllDigits(SubSeq(low, 5, Len(low)))
            THEN "snan"
        ELSE ""

ParseDecimal(bytes) ==
    LET text == SelectSeq(bytes, LAMBDA c : c < 128)
        bare == SelectSeq(RStrip(LStrip(text)), LAMBDA c : c # 95)
        signed == bare # << >> /\ Head(bare) \in {43, 45}
        neg == signed /\ Head(bare) = 45
        body == IF signed THEN Tail(bare) ELSE bare
        es == {i \in 1..Len(body) : Lower(body[i]) = 101}
        e == IF es = {} THEN Len(body) + 1
             ELSE CHOOSE i \in es : \A j \in es : i <= j
        mant == SubSeq(body, 1, e - 1)
        expo == SubSeq(body, e + 1, Len(body))
        esigned == expo # << >> /\ Head(expo) \in {43, 45}
        edigits == IF esigned THEN Tail(expo) ELSE expo
        dots == {i \in 1..Len(mant) : mant[i] = 46}
        dot == IF dots = {} THEN Len(mant) + 1
               ELSE CHOOSE i \in dots : \A j \in dots : i <= j
        int == SubSeq(mant, 1, dot - 1)
        frac == SubSeq(mant, dot + 1, Len(mant))
    IN  IF /\ AllDigits(int) /\ AllDigits(frac) /\ Len(int) + Len(frac) >= 1
           /\ es = {} \/ (edigits # << >> /\ AllDigits(edigits))
            THEN [kind |-> "number",
                  sign |-> IF neg THEN 1 ELSE 0,
                  coef |-> DigitsValue(int \o frac, 0),
                  places |-> Len(frac) - (IF esigned /\ Head(expo) = 45 THEN -1 ELSE 1)
                                             * DigitsValue(edigits, 0)]
        ELSE IF SpecialToken(body) # ""
            THEN [kind |-> SpecialToken(body), sign |-> 0, coef |-> 0, places |-> 0]
        ELSE [kind |-> "error", sign |-> 0, coef |-> 0, places |-> 0]

(***************************************************************************)
(* Decimal arithmetic in the default context.  A finite Decimal is the    *)
(* triple Python keeps: sign (0 or 1), int (the digits of the coefficient, *)
(* most significant first, no leading zero) and exp.                       *)
(***************************************************************************)
\* getcontext().prec: the significant digits a result keeps
PREC == 28

Zeros(n) == [i \in 1..n |-> 0]

RECURSIVE StripLeading(_)
StripLeading(ds) ==
    IF Len(ds) > 1 /\ Head(ds) = 0 THEN StripLeading(Tail(ds)) ELSE ds

\* str(n) of a natural n
RECURSIVE DigitsOf(_)
DigitsOf(n) == IF n < 10 THEN <<n>> ELSE Append(DigitsOf(n \div 10), n % 10)

IsZero(ds) == \A i \in 1..Len(ds) : ds[i] = 0

\* int(ds) * k, from the last digit up; acc is the digits done and the carry
RECURSIVE MulFold(_, _, _, _)
MulFold(ds, k, i, acc) ==
    IF i = 0 THEN StripLeading(DigitsOf(acc.c) \o acc.q)
    ELSE CHOOSE r \in {MulFold(ds, k, i - 1, a) :
             a \in {[q |-> <<(ds[i] * k + acc.c) % 10>> \o acc.q,
                     c |-> (ds[i] * k + acc.c) \div 10]}} : TRUE

MulSmall(ds, k) == MulFold(ds, k, Len(ds), [q |-> << >>, c |-> 0])

\* divmod(int(ds), d), from the first digit down
RECURSIVE DivFold(_, _, _, _)
DivFold(ds, d, i, acc) ==
    IF i > Len(ds) THEN [q |-> StripLeading(acc.q), r |-> acc.r]
    ELSE CHOOSE r \in {DivFold(ds, d, i + 1, a) :
             a \in {[q |-> Append(acc.q, (acc.r * 10 + ds[i]) \div d),
                     r |-> (acc.r * 10 + ds[i]) % d]}} : TRUE

DivModSmall(ds, d) == DivFold(ds, d, 1, [q |-> << >>, r |-> 0])

\* int(a) + int(b)
RECURSIVE AddFold(_, _, _, _)
AddFold(a, b, i, acc) ==
    IF i = 0 THEN StripLeading(<<acc.c>> \o acc.q)
    ELSE CHOOSE r \in {AddFold(a, b, i - 1, x) :
             x \in {[q |-> <<(a[i] + b[i] + acc.c) % 10>> \o acc.q,
                     c |-> (a[i] + b[i] + acc.c) \div 10]}} : TRUE

BigAdd(a, b) ==
    LET n == Max(Len(a), Len(b))
    IN  AddFold(Zeros(n - Len(a)) \o a, Zeros(n - Len(b)) \o b, n,
                [q |-> << >>, c |-> 0])

Dec(sign, int, exp) == [sign |-> sign, int |-> int, exp |-> exp]

\* a rounding that drops the digits beyond prec
RoundDown(int, prec) ==
    IF IsZero(SubSeq(int, prec + 1, Len(int))) THEN 0 ELSE -1

\* Decimal._round_half_even(prec): 1 to round up, 0 when nothing is lost,
\* -1 to round down
RoundHalfEven(int, prec) ==
    LET rest == SubSeq(int, prec + 1, Len(int))
        exact_half == Head(rest) = 5 /\ IsZero(Tail(rest))
    IN  IF exact_half /\ (prec = 0 \/ int[prec] % 2 = 0) THEN -1
        ELSE IF Head(rest) >= 5 THEN 1
        ELSE IF IsZero(rest) THEN 0
        ELSE -1

\* Decimal._fix: a coefficient longer than PREC digits is rounded to PREC
Fix(d) ==
    LET exp_min == Len(d.int) + d.exp - PREC
        coeff == SubSeq(d.int, 1, PREC)
        up == BigAdd(coeff, <<1>>)
    IN  IF IsZero(d.int) \/ d.exp >= exp_min THEN d
        ELSE IF RoundHalfEven(d.int, PREC) <= 0 THEN Dec(d.sign, coeff, exp_min)
        ELSE IF Len(up) > PREC
            THEN Dec(d.sign, SubSeq(up, 1, Len(up) - 1), exp_min + 1)
        ELSE Dec(d.sign, up, exp_min)

\* int(ds) of a coefficient short enough for a machine word
RECURSIVE IntFold(_, _)
IntFold(ds, acc) == IF ds = << >> THEN acc ELSE IntFold(Tail(ds), 10 * acc + Head(ds))

IntOf(ds) == IntFold(ds, 0)

\* Decimal.__mul__; b is a conversion factor, whose coefficient is short
DecMul(a, b) ==
    LET sign == (a.sign + b.sign) % 2
    IN  IF IsZero(a.int) \/ IsZero(b.int)
            THEN Fix(Dec(sign, <<0>>, a.exp + b.exp))
        ELSE Fix(Dec(sign, MulSmall(a.int, IntOf(b.int)), a.exp + b.exp))

\* an exact quotient sheds trailing zeros until it reaches the ideal exponent
RECURSIVE Reduce(_, _, _)
Reduce(coeff, exp, ideal_exp) ==
    IF exp < ideal_exp /\ Len(coeff) > 1 /\ coeff[Len(coeff)] = 0
        THEN Reduce(SubSeq(coeff, 1, Len(coeff) - 1), exp + 1, ideal_exp)
    ELSE [int |-> coeff, exp |-> exp]

\* Decimal.__truediv__; b is a unit ratio, not zero and with a short
\* coefficient.  The operands of get_weight have at most 14 digits, so shift
\* is positive.
DecDiv(a, b) ==
    LET sign == (a.sign + b.sign) % 2
        shift == Len(b.int) - Len(a.int) + PREC + 1
        exp == a.exp - b.exp - shift
        dm == DivModSmall(a.int \o Zeros(shift), IntOf(b.int))
        \* not exact: keep the coefficient off a multiple of 5 so that the
        \* rounding sees that digits follow
        sticky == IF dm.q[Len(dm.q)] % 5 = 0 THEN BigAdd(dm.q, <<1>>) ELSE dm.q
        reduced == Reduce(dm.q, exp, a.exp - b.exp)
    IN  IF IsZero(a.int) THEN Fix(Dec(sign, <<0>>, a.exp - b.exp))
        ELSE IF dm.r # 0 THEN Fix(Dec(sign, sticky, exp))
        ELSE Fix(Dec(sign, reduced.int, reduced.exp))

\* UNIT_RATIO: grams in one unit
UnitRatio(unit) ==
    IF unit = UNIT_GR THEN Dec(0, <<1>>, 0)
    ELSE IF unit = UNIT_KG THEN Dec(0, <<1, 0, 0, 0>>, 0)
    ELSE IF unit = UNIT_LB THEN Dec(0, <<4, 5, 3, 5, 9, 2>>, -3)
    ELSE Dec(0, <<2, 8, 3, 4, 9, 5>>, -4)

\* a weight and its status as get_weight returns them: status, then the sign,
\* the exponent and the digits of the weight
Reading(status, weight) == <<status, weight.sign, weight.exp>> \o weight.int

\* Decimal('0')
ZeroWeight == Dec(0, <<0>>, 0)

(***************************************************************************)
(* CASType6.get_weight after read_data has returned the response.         *)
(***************************************************************************)
\* a mapping in which only 'F' stands for overload
CasStatusOnlyF(code) ==
    IF code = <<83>> THEN STATUS_STABLE
    ELSE IF code = <<70>> THEN STATUS_OVERLOAD
    ELSE STATUS_UNSTABLE

\* STATUS_MAPPING.get(code, STATUS_OVERLOAD)
CasStatus(code) ==
    IF code = <<83>> THEN STATUS_STABLE
    ELSE IF code = <<85>> THEN STATUS_UNSTABLE
    ELSE STATUS_OVERLOAD

\* MEASURE_MAPPING, 9 where the code is not a key
CasUnit(code) ==
    IF code = <<32, 103>> \/ code = <<103, 32>> THEN UNIT_GR
    ELSE IF code = <<107, 103>> THEN UNIT_KG
    ELSE IF code = <<108, 98>> THEN UNIT_LB
    ELSE IF code = <<111, 122>> THEN UNIT_OZ
    ELSE 9

CasDecode(payload, measure_unit) ==
    LET status == CasStatus(PySlice(payload, 0, 1))
        scales_unit == CasUnit(PySlice(payload, 8, 10))
        weight == ParseDecimal(PySlice(payload, 1, 8))
    IN  IF status = STATUS_OVERLOAD THEN Ok(Reading(status, ZeroWeight))
        ELSE IF scales_unit \notin RecognizedUnits
            THEN Raise("ScalesError", "measure unit")
        ELSE IF weight.kind = "error" THEN Raise("ScalesError", "scale readings")
        ELSE IF weight.kind = "snan" THEN Raise("InvalidOperation", "sNaN")
        ELSE IF measure_unit \notin RecognizedUnits
            THEN Raise("KeyError", "UNIT_RATIO")
        ELSE IF weight.kind # "number"
            THEN [kind |-> "ok", why |-> weight.kind, val |-> <<status>>]
        ELSE Ok(Reading(status,
                        DecDiv(DecMul(Dec(weight.sign, DigitsOf(weight.coef),
                                          -weight.places),
                                      UnitRatio(scales_unit)),
                               UnitRatio(measure_unit))))

CasGetWeight(response, measure_unit) ==
    LET checked == CasCheckResponse(response)
    IN  IF checked.kind # "ok" THEN checked
        ELSE CasDecode(checked.val, measure_unit)

(***************************************************************************)
(* MassK1C.get_weight and get_info after exec_command has returned.       *)
(***************************************************************************)
\* int.from_bytes(bytes, 'little', signed=True)
RECURSIVE FromBytesLESigned(_)
FromBytesLESigned(bytes) ==
    IF bytes = << >> THEN 0
    ELSE IF Len(bytes) = 1
        THEN (IF bytes[1] >= 128 THEN bytes[1] - 256 ELSE bytes[1])
    ELSE Head(bytes) + 256 * FromBytesLESigned(Tail(bytes))

\* Decimal(n) of an int n
DecOfInt(n) == IF n < 0 THEN Dec(1, DigitsOf(-n), 0) ELSE Dec(0, DigitsOf(n), 0)

\* a table that starts at 1 g
DivisionFactorFromOne(division) == Dec(0, <<1>> \o Zeros(division), 0)

\* DIVISION_FACTOR: grams in one division
DivisionFactor(division) ==
    IF division = 0 THEN Dec(0, <<1>>, -1)
    ELSE IF division = 1 THEN Dec(0, <<1>>, 0)
    ELSE IF division = 2 THEN Dec(0, <<1, 0>>, 0)
    ELSE IF division = 3 THEN Dec(0, <<1, 0, 0>>, 0)
    ELSE Dec(0, <<1, 0, 0, 0>>, 0)

\* STATUS_REPR.get(code, STATUS_OVERLOAD)
MassKStatus(code) ==
    IF code = 0 THEN STATUS_UNSTABLE
    ELSE IF code = 1 THEN STATUS_STABLE
    ELSE STATUS_OVERLOAD

MassKDecodeWeight(payload, measure_unit) ==
    IF Len(payload) < 7 THEN Raise("IndexError", "payload")
    ELSE LET status == MassKStatus(payload[7])
             division == payload[6]
         IN  IF status = STATUS_OVERLOAD THEN Ok(Reading(status, ZeroWeight))
             ELSE IF division \notin 0..4
                 THEN Raise("ScalesError", "division cost")
             ELSE Ok(Reading(status,
                             DecDiv(DecMul(DecOfInt(FromBytesLESigned(
                                               PySlice(payload, 1, 5))),
                                           DivisionFactor(division)),
                                    UnitRatio(measure_unit))))

\* firmware major, minor and the four serial-number bytes (little-endian)
MassKDecodeInfo(payload) ==
    IF Len(payload) < 6 THEN Raise("IndexError", "payload")
    ELSE Ok(<<payload[6], payload[5]>> \o PySlice(payload, 6, 10))

MassKDecode(command, payload, measure_unit) ==
    IF command = CMD_POLL THEN MassKDecodeInfo(payload)
    ELSE MassKDecodeWeight(payload, measure_unit)

\* the part of get_weight / get_info that follows connector.read
MassKFinish(command, response, measure_unit) ==
    LET checked == MassKCheckResponse(command, response)
    IN  IF checked.kind # "ok" THEN checked
        ELSE MassKDecode(command, checked.val, measure_unit)

(***************************************************************************)
(* What the devices answer.  The device is the environment: it may answer *)
(* a request with any of these, late, or not at all.                      *)
(***************************************************************************)
CasFrame(payload, bcc) == <<1, 2>> \o payload \o bcc \o <<3, 4>>

\* 'S', " 12.345", "kg"
CasStablePayload == <<83, 32, 49, 50, 46, 51, 52, 53, 107, 103>>
\* 'F', "-------", "??"
CasOverloadPayload == <<70, 45, 45, 45, 45, 45, 45, 45, 63, 63>>
\* 'U', "000.500", "??"
CasBadUnitPayload == <<85, 48, 48, 48, 46, 53, 48, 48, 63, 63>>

CasAckReplies == {<<6>>, <<21>>}

\* a well-formed response and one with a wrong BCC
CasDataReplies ==
    {CasFrame(CasStablePayload, CalcBcc(CasStablePayload)),
     CasFrame(CasStablePayload, <<Xor(CalcBcc(CasStablePayload)[1], 1)>>)}

\* header, length, acknowledgement byte, body and the CRC of ack + body
MassKResponse(ack, body) ==
    HEADER \o ToBytesLE2(Len(body) + 1) \o <<ack>> \o body
           \o CalcCrc(<<ack>> \o body)

\* weight (4 bytes, little-endian), division index, status
MassKWeightBodies ==
    {<<57, 48, 0, 0, 1, 1>>,        \* 12345 x 1 g, stable
     <<16, 0, 0, 0, 0, 0>>,         \* 16 x 0.1 g, unstable
     <<251, 255, 255, 255, 7, 1>>,  \* -5, unknown division
     <<0, 0, 0, 0, 9, 2>>}          \* overload

MassKPollBody == <<0, 0, 0, 3, 1, 210, 4, 0, 0>> \o [i \in 1..17 |-> 0]

\* a well-formed response and one with the acknowledgement of an error
MassKWeightReplies ==
    {MassKResponse(16, <<57, 48, 0, 0, 1, 1>>),
     MassKResponse(40, <<0, 0, 0, 0, 0, 0>>)}

MassKPollReplies ==
    {MassKResponse(1, MassKPollBody), MassKResponse(40, MassKPollBody)}

Replies(request) ==
    IF request = CAS_CMD_ENQ THEN CasAckReplies
    ELSE IF request = CAS_CMD_DC1 THEN CasDataReplies
    ELSE IF PySlice(request, 5, 6) = CMD_POLL THEN MassKPollReplies
    ELSE MassKWeightReplies

(***************************************************************************)
(* The state: one driver instance with its connector, and the calls in    *)
(* progress on it.  A call is a frame: pc is the await it is suspended at, *)
(* call its method and unit, exc the exception its connector.read is      *)
(* handling.                                                               *)
(***************************************************************************)
Drivers == {"CASType6", "MassK1C"}
\* an absent stream handle
None == "None"
StreamReader == "StreamReader"
StreamWriter == "StreamWriter"

VARIABLES
    drv,      \* the class of the driver instance
    active,   \* the frames that have entered async with self.lock, oldest first
    waiters,  \* the calls suspended in lock.acquire, in arrival order
    locked,   \* ScalesDriver.lock
    last,     \* the call that left the lock last and what it returned or raised,
              \* or what read_data / exec_command has just handed it
    reader,   \* Connector.reader, a StreamReader or None
    writer,   \* Connector.writer, a StreamWriter or None
    stream,   \* the transport opened last: none, open, closed, abandoned
    rx,       \* bytes received from the device and not yet read
    owed,     \* requests the device has received and not answered
    fn,       \* the pure function under study (function specification)
    arg,      \* its input
    out,      \* its results
    fleet     \* several drivers polled side by side (fleet specification)

vars == <<drv, active, waiters, locked, last, reader, writer, stream, rx, owed,
          fn, arg, out, fleet>>

connVars == <<reader, writer, stream, rx, owed>>
fnVars == <<fn, arg, out, fleet>>

WriteStages == {"enq", "dc1", "req"}
ReadStages == {"ack", "data", "resp"}
\* from the first connector.write to the end of the last connector.read
ExchangeStages == WriteStages \cup ReadStages \cup {"closing"}

\* the units callers ask for: kilogram (example.py) and one that is not a key
\* of UNIT_RATIO
RequestUnits == {UNIT_KG, 7}

CallArgs ==
    {[name |-> "get_info", unit |-> UNIT_GR]}
    \cup {[name |-> "get_weight", unit |-> u] : u \in RequestUnits}

NoCall == [name |-> "none", unit |-> UNIT_GR]

Frames == 1..Len(active)

Remove(q, i) == SubSeq(q, 1, i - 1) \o SubSeq(q, i + 1, Len(q))

MainInit ==
    /\ active = << >>
    /\ waiters = << >>
    /\ locked = FALSE
    /\ last = [call |-> NoCall, res |-> NoResult]
    /\ reader = None
    /\ writer = None
    /\ stream = "none"
    /\ rx = << >>
    /\ owed = << >>

Init ==
    /\ drv \in Drivers
    /\ MainInit
    /\ fn = "none"
    /\ arg = << >>
    /\ out = << >>
    /\ fleet = << >>

(***************************************************************************)
(* The device lock (asyncio.Lock) around an exchange.                      *)
(***************************************************************************)
\* an acquire that looks at the queue only, not at the holder
CanAcquireIgnoringHolder == waiters = << >>

\* lock.acquire returns at once when the lock is free and nobody waits
CanAcquire == ~locked /\ waiters = << >>

FirstStage == IF drv = "CASType6" THEN "enq" ELSE "req"

NewFrame(c) == [pc |-> FirstStage, call |-> c, exc |-> ""]

\* async with self.lock: enter the exchange or queue up behind the holder
EnterLock(c) ==
    IF CanAcquire
        THEN /\ locked' = TRUE
             /\ active' = Append(active, NewFrame(c))
             /\ UNCHANGED waiters
        ELSE /\ waiters' = Append(waiters, c)
             /\ UNCHANGED <<locked, active>>

\* the frame moves on to its next await
Goto(i, stage) ==
    /\ active' = [active EXCEPT ![i].pc = stage]
    /\ UNCHANGED <<last, locked>>

\* an exit that leaves the lock as it is
FinishKeepsLock(i, res) ==
    /\ active' = Remove(active, i)
    /\ last' = [call |-> active[i].call, res |-> res]
    /\ UNCHANGED locked

\* the call returns or raises out of the async with block: the lock is released
Finish(i, res) ==
    /\ active' = Remove(active, i)
    /\ last' = [call |-> active[i].call, res |-> res]
    /\ locked' = FALSE

\* read_data has returned the response, or exec_command the payload, to
\* get_weight or get_info, which goes on with it
Returned(what, data) == [kind |-> what, why |-> "", val |-> data]

\* the call that left the lock last has not suspended since: no other task
\* runs
Running == last.res.kind \in {"response", "payload"}

(***************************************************************************)
(* A caller calls get_info or get_weight(unit).                            *)
(***************************************************************************)
Call ==
    /\ ~Running
    /\ Len(active) + Len(waiters) < MaxCalls
    /\ \E c \in CallArgs :
        \/ /\ drv = "CASType6"
           /\ c.name = "get_info"
           /\ last' = [call |-> c,
                       res |-> [kind |-> "ok", why |-> "name", val |-> << >>]]
           /\ UNCHANGED <<active, locked, waiters>>
        \/ /\ drv = "MassK1C"
           /\ c.name = "get_weight"
           /\ c.unit \notin RecognizedUnits
           /\ last' = [call |-> c, res |-> Raise("ValueError", "Invalid measure unit.")]
           /\ UNCHANGED <<active, locked, waiters>>
        \/ /\ \/ drv = "CASType6" /\ c.name = "get_weight"
              \/ drv = "MassK1C" /\ c.name = "get_info"
              \/ drv = "MassK1C" /\ c.unit \in RecognizedUnits
           /\ EnterLock(c)
           /\ UNCHANGED last
    /\ UNCHANGED <<drv, connVars, fnVars>>

\* a wake-up that does not wait for the running task to suspend
WakeWhileRunning ==
    /\ ~locked
    /\ waiters # << >>
    /\ locked' = TRUE
    /\ active' = Append(active, NewFrame(Head(waiters)))
    /\ waiters' = Tail(waiters)
    /\ UNCHANGED <<drv, last, connVars, fnVars>>

\* the first waiter is woken once the lock has been released and the task
\* that released it has suspended or ended
Wake ==
    /\ ~Running
    /\ ~locked
    /\ waiters # << >>
    /\ locked' = TRUE
    /\ active' = Append(active, NewFrame(Head(waiters)))
    /\ waiters' = Tail(waiters)
    /\ UNCHANGED <<drv, last, connVars, fnVars>>

(***************************************************************************)
(* Connector._open_connection, awaited by read and write when the handle  *)
(* is absent.                                                              *)
(***************************************************************************)
\* OSError stands for OSError and RuntimeError, which share every handler
OpenOutcomes == {"ok", "TimeoutError", "ValueError", "OSError"}

\* a handler that reports every failure to open as ConnectorError
OpenErrorAsConnector(outcome) ==
    IF outcome = "TimeoutError" THEN Raise("ConnectorError", "Connection timout.")
    ELSE Raise("ConnectorError", "open")

OpenError(outcome) ==
    IF outcome = "TimeoutError" THEN Raise("ConnectorError", "Connection timout.")
    ELSE IF outcome = "ValueError" THEN Raise("ConfigurationError", "open")
    ELSE Raise("ConnectorError", "open")

\* a read or write that opens a connection whether it has one or not
NeedsOpenAlways(i) == active[i].pc \in WriteStages \cup ReadStages

\* read and write call _open_connection when they find their handle absent
NeedsOpen(i) ==
    \/ active[i].pc \in WriteStages /\ writer = None
    \/ active[i].pc \in ReadStages /\ reader = None

OpenConnection(i) ==
    /\ NeedsOpen(i)
    /\ \E outcome \in OpenOutcomes :
        IF outcome = "ok"
            THEN /\ reader' = StreamReader
                 /\ writer' = StreamWriter
                 /\ stream' = "open"
                 /\ rx' = << >>
                 /\ owed' = << >>
                 /\ UNCHANGED <<active, last, locked>>
            ELSE /\ Finish(i, OpenError(outcome))
                 /\ UNCHANGED connVars
    /\ UNCHANGED <<drv, waiters, fnVars>>

(***************************************************************************)
(* Connector.write: writer.write(data), then drain within the timeout.    *)
(***************************************************************************)
Command(c) == IF c.name = "get_info" THEN CMD_POLL ELSE CMD_GET_WEIGHT

WriteData(f) ==
    IF f.pc = "enq" THEN CAS_CMD_ENQ
    ELSE IF f.pc = "dc1" THEN CAS_CMD_DC1
    ELSE BuildFrame(Command(f.call))

\* a driver that sends ENQ again after ENQ
AfterWriteResend(stage) ==
    IF stage = "enq" THEN "enq" ELSE IF stage = "dc1" THEN "data" ELSE "resp"

AfterWrite(stage) ==
    IF stage = "enq" THEN "ack" ELSE IF stage = "dc1" THEN "data" ELSE "resp"

\* the request reaches the device, which remembers MaxOwed of them
Deliver(data) ==
    owed' = IF Len(owed) < MaxOwed THEN Append(owed, data)
            ELSE Append(Tail(owed), data)

\* a handler that forgets the writer only
WriteErrorResetWriterOnly ==
    /\ writer' = None
    /\ UNCHANGED reader

\* write's handler of OSError and RuntimeError: self.reader = self.writer = None
WriteErrorReset ==
    /\ reader' = None
    /\ writer' = None

\* the drain fails with OSError or RuntimeError, or does not return within
\* the timeout (the data may or may not have reached the device), or returns
WriteDrain(i) ==
    /\ active[i].pc \in WriteStages
    /\ writer # None
    /\ \/ /\ WriteErrorReset
          /\ stream' = "abandoned"
          /\ Finish(i, Raise("ConnectorError", "write"))
          /\ UNCHANGED <<rx, owed>>
       \/ /\ \/ UNCHANGED owed
             \/ Deliver(WriteData(active[i]))
          /\ Finish(i, Raise("ConnectorError", "Data sending timeout."))
          /\ UNCHANGED <<reader, writer, stream, rx>>
       \/ /\ Deliver(WriteData(active[i]))
          /\ Goto(i, AfterWrite(active[i].pc))
          /\ UNCHANGED <<reader, writer, stream, rx>>
    /\ UNCHANGED <<drv, waiters, fnVars>>

(***************************************************************************)
(* Connector.read: reader.readexactly(data_len) within the timeout.       *)
(***************************************************************************)
\* what ends the wait when the bytes are not there: the timeout, the end of
\* the stream, or an error of the transport
StreamEvents == {"TimeoutError", "eof", "OSError"}

\* StreamReader.read(n): whatever has arrived, at most n bytes
ReadSomeOp(buf, n, ev) ==
    IF ev = "OSError"
        THEN [res |-> Raise(ev, ""), rest |-> buf]
    ELSE IF buf = << >> /\ ev = "TimeoutError"
        THEN [res |-> Raise("TimeoutError", ""), rest |-> buf]
    ELSE [res |-> Ok(SubSeq(buf, 1, Min(n, Len(buf)))),
          rest |-> SubSeq(buf, Min(n, Len(buf)) + 1, Len(buf))]

\* StreamReader.readexactly(n) on the unread bytes buf
ReadExactlyOp(buf, n, ev) ==
    IF ev = "OSError"
        THEN [res |-> Raise(ev, ""), rest |-> buf]
    ELSE IF Len(buf) >= n
        THEN [res |-> Ok(SubSeq(buf, 1, n)), rest |-> SubSeq(buf, n + 1, Len(buf))]
    ELSE IF ev = "eof"
        THEN [res |-> Raise("IncompleteReadError", ""), rest |-> << >>]
    ELSE [res |-> Raise("TimeoutError", ""), rest |-> buf]

\* Connector.read once the stream is open: the bytes, or the ConnectorError
\* raised; close tells whether _close_connection runs before the raise
ConnectorRead(buf, n, ev) ==
    LET r == ReadExactlyOp(buf, n, ev) IN
    IF r.res.kind = "ok" THEN [res |-> r.res, rest |-> r.rest, close |-> FALSE]
    ELSE IF r.res.kind = "TimeoutError"
        THEN [res |-> Raise("ConnectorError", "Receive data timeout."),
              rest |-> r.rest, close |-> FALSE]
    ELSE [res |-> Raise("ConnectorError", r.res.kind),
          rest |-> r.rest, close |-> TRUE]

ReadLen(f) ==
    IF f.pc = "ack" THEN Len(CAS_CMD_ACK)
    ELSE IF f.pc = "data" THEN CAS_RESPONSE_LEN
    ELSE CmdResponseLen(Command(f.call))

\* a driver that goes on to DC1 whatever the scale answered to ENQ
AfterReadAnyAck(i, data) ==
    LET f == active[i]
        checked == MassKCheckResponse(Command(f.call), data)
    IN
    IF f.pc = "ack"
        THEN Goto(i, "dc1")
    ELSE IF f.pc = "data"
        THEN Finish(i, Returned("response", data))
    ELSE IF checked.kind # "ok"
        THEN Finish(i, checked)
    ELSE Finish(i, Returned("payload", checked.val))

\* the driver's code from the return of connector.read to its next await or
\* to the end of its async with block: read_data compares the byte with ACK,
\* or returns the 15 bytes as they are; exec_command returns what
\* check_response returns or raises
AfterRead(i, data) ==
    LET f == active[i]
        checked == MassKCheckResponse(Command(f.call), data)
    IN
    IF f.pc = "ack"
        THEN IF data # CAS_CMD_ACK
                 THEN Finish(i, Raise("ScalesError", "ACK"))
                 ELSE Goto(i, "dc1")
    ELSE IF f.pc = "data"
        THEN Finish(i, Returned("response", data))
    ELSE IF checked.kind # "ok"
        THEN Finish(i, checked)
    ELSE Finish(i, Returned("payload", checked.val))

\* readexactly ends with the bytes or with the event ev
ReadEnds(i, ev) ==
    LET r == ConnectorRead(rx, ReadLen(active[i]), ev) IN
    /\ rx' = r.rest
    /\ \/ /\ r.res.kind = "ok"
          /\ AfterRead(i, r.res.val)
          /\ UNCHANGED stream
       \/ /\ r.res.kind # "ok"
          /\ ~r.close
          /\ Finish(i, r.res)
          /\ UNCHANGED stream
       \/ /\ r.res.kind # "ok"
          /\ r.close
          \* _close_connection up to its await: writer.close()
          /\ stream' = IF writer # None THEN "closed" ELSE stream
          /\ active' = [active EXCEPT ![i].pc = "closing", ![i].exc = r.res.why]
          /\ UNCHANGED <<last, locked>>

ReadExactly(i) ==
    /\ active[i].pc \in ReadStages
    /\ reader # None
    /\ \/ ReadEnds(i, "OSError")
       \/ ReadEnds(i, "eof")
       \/ ReadEnds(i, "TimeoutError")
    /\ UNCHANGED <<drv, waiters, reader, writer, owed, fnVars>>

\* a close that keeps both handles
CloseResetKeepsHandles == UNCHANGED <<reader, writer>>

\* _close_connection after writer.wait_closed(): self.reader = self.writer = None
CloseReset ==
    /\ reader' = None
    /\ writer' = None

CloseConnection(i) ==
    /\ active[i].pc = "closing"
    /\ CloseReset
    /\ stream' = IF stream = "closed" THEN "none" ELSE stream
    /\ Finish(i, Raise("ConnectorError", active[i].exc))
    /\ UNCHANGED <<drv, waiters, rx, owed, fnVars>>

(***************************************************************************)
(* get_weight and get_info after the exchange, the lock released:         *)
(* CASType6.get_weight validates and decodes the response, the MassK1C    *)
(* methods decode the payload.                                             *)
(***************************************************************************)
\* a driver that drops the connection when the response is refused
ResumeAndReset ==
    /\ Running
    /\ last' = [last EXCEPT !.res =
                    IF last.res.kind = "response"
                        THEN CasGetWeight(last.res.val, last.call.unit)
                    ELSE MassKDecode(Command(last.call), last.res.val,
                                     last.call.unit)]
    /\ IF last'.res.kind = "ScalesError"
           THEN reader' = None /\ writer' = None /\ UNCHANGED <<stream, rx, owed>>
           ELSE UNCHANGED connVars
    /\ UNCHANGED <<drv, active, waiters, locked, fnVars>>

Resume ==
    /\ Running
    /\ last' = [last EXCEPT !.res =
                    IF last.res.kind = "response"
                        THEN CasGetWeight(last.res.val, last.call.unit)
                    ELSE MassKDecode(Command(last.call), last.res.val,
                                     last.call.unit)]
    /\ UNCHANGED <<drv, active, waiters, locked, connVars, fnVars>>

(***************************************************************************)
(* The device answers the oldest request it has not answered yet.         *)
(***************************************************************************)
DeviceReply ==
    /\ owed # << >>
    /\ stream = "open"
    /\ Len(rx) <= MaxUnread
    /\ \E reply \in Replies(Head(owed)) :
        rx' = rx \o reply
    /\ owed' = Tail(owed)
    /\ UNCHANGED <<drv, active, waiters, locked, last, reader, writer, stream, fnVars>>

Next ==
    \/ Call
    \/ Wake
    \/ \E i \in Frames : OpenConnection(i)
    \/ \E i \in Frames : WriteDrain(i)
    \/ \E i \in Frames : ReadExactly(i)
    \/ \E i \in Frames : CloseConnection(i)
    \/ Resume
    \/ DeviceReply

Spec == Init /\ [][Next]_vars

\* The event loop runs a woken waiter, and asyncio.wait_for(...,
\* transfer_timeout) ends the open, the drain and the read.  Nothing ends
\* writer.wait_closed() in _close_connection, no caller has to call again,
\* and the device need not answer.  At most one of these steps is enabled at
\* a time; what a call does after it has left the lock is not among them.
Bounded ==
    \/ Wake
    \/ \E i \in Frames : OpenConnection(i)
    \/ \E i \in Frames : WriteDrain(i)
    \/ \E i \in Frames : ReadExactly(i)

SpecLive == Spec /\ WF_vars(Bounded)

(***************************************************************************)
(* The pure functions on their own: Init draws a function and an input,   *)
(* the action applies the function.                                        *)
(***************************************************************************)
mainVars == <<drv, active, waiters, locked, last, connVars>>

RECURSIVE SeqsUpTo(_, _)
\* the sequences over S of length at most n
SeqsUpTo(S, n) ==
    IF n = 0 THEN {<< >>}
    ELSE LET shorter == SeqsUpTo(S, n - 1)
         IN  shorter \cup {Append(q, x) : q \in shorter, x \in S}

Prefixes(q) == {SubSeq(q, 1, k) : k \in 0..Len(q)}

\* bytes the inputs of calc_crc are made of
SampleBytes == {0, 1, 16, 85, 128, 160, 206, 248, 255}

CrcInputs == [data : SeqsUpTo(SampleBytes, MaxDataLen)]

\* responses of a CASType6 scale: well-formed ones, ones with a wrong BCC or a
\* wrong wrap, and everything cut short
CasResponses ==
    LET payloads == {CasStablePayload, CasOverloadPayload, CasBadUnitPayload}
        whole == {CasFrame(p, CalcBcc(p)) : p \in payloads}
                 \cup {CasFrame(p, <<Xor(CalcBcc(p)[1], 1)>>) : p \in payloads}
                 \cup {<<1, 2>> \o CasStablePayload \o CalcBcc(CasStablePayload)
                             \o <<3, 5>>}
                 \cup {<<1, 3>> \o CasStablePayload \o CalcBcc(CasStablePayload)
                             \o <<3, 4>>}
    IN  UNION {Prefixes(r) : r \in whole}

\* responses of a MassK1C scale to GET_WEIGHT and to POLL, well-formed, with a
\* wrong acknowledgement, header or CRC, and everything cut short
MassKResponses(command) ==
    LET good == IF command = CMD_POLL THEN {MassKResponse(1, MassKPollBody)}
                ELSE {MassKResponse(16, b) : b \in MassKWeightBodies}
        other == IF command = CMD_POLL THEN MassKResponse(40, MassKPollBody)
                 ELSE MassKResponse(40, <<0, 0, 0, 0, 0, 0>>)
        badHeader == {<<248, 85, 207>> \o PySliceFrom(r, 3) : r \in good}
        badCrc == {SubSeq(r, 1, Len(r) - 1) \o <<Xor(r[Len(r)], 128)>> : r \in good}
    IN  UNION {Prefixes(r) : r \in good \cup {other} \cup badHeader \cup badCrc}

CheckInputs ==
    [driver : {"CASType6"}, command : {<< >>}, unit : {UNIT_GR},
     response : CasResponses, bit : 0..7]
    \cup [driver : {"MassK1C"}, command : {CMD_GET_WEIGHT}, unit : {UNIT_GR},
          response : MassKResponses(CMD_GET_WEIGHT), bit : 0..15]
    \cup [driver : {"MassK1C"}, command : {CMD_POLL}, unit : {UNIT_GR},
          response : MassKResponses(CMD_POLL), bit : 0..15]

\* the fields of a CASType6 payload: status 'S', 'U', 'F' and 0; weights
\* " 12.345", "000.500", "-001.50", " 1e+3  ", "0000007", "-------",
\* "    NaN", "    Inf", "   sNaN" and "12.345" after a byte 0xFF; units " g",
\* "g ", "kg", "lb", "oz", "??"
CasStatusBytes == {83, 85, 70, 0}

CasWeightFields ==
    {<<32, 49, 50, 46, 51, 52, 53>>,
     <<48, 48, 48, 46, 53, 48, 48>>,
     <<45, 48, 48, 49, 46, 53, 48>>,
     <<32, 49, 101, 43, 51, 32, 32>>,
     <<48, 48, 48, 48, 48, 48, 55>>,
     <<45, 45, 45, 45, 45, 45, 45>>,
     <<32, 32, 32, 32, 78, 97, 78>>,
     <<32, 32, 32, 32, 73, 110, 102>>,
     <<32, 32, 32, 115, 78, 97, 78>>,
     <<255, 49, 50, 46, 51, 52, 53>>}

CasUnitCodes ==
    {<<32, 103>>, <<103, 32>>, <<107, 103>>, <<108, 98>>, <<111, 122>>, <<63, 63>>}

\* the fields of a MassK1C weight body: weight, division index, status
MassKRawWeights ==
    {<<57, 48, 0, 0>>, <<16, 0, 0, 0>>, <<251, 255, 255, 255>>, <<0, 0, 0, 0>>,
     <<255, 255, 255, 127>>}

MassKDivisions == {0, 1, 2, 3, 4, 5, 255}

MassKStatusBytes == {0, 1, 2, 255}

\* the units get_weight is asked for
GetWeightUnits == RecognizedUnits \cup {7}

\* responses that pass check_response, with every combination of the fields
GetWeightInputs ==
    [driver : {"CASType6"}, command : {<< >>}, unit : GetWeightUnits,
     response : {CasFrame(<<st>> \o w \o u, CalcBcc(<<st>> \o w \o u)) :
                     st \in CasStatusBytes, w \in CasWeightFields,
                     u \in CasUnitCodes}]
    \cup [driver : {"MassK1C"}, command : {CMD_GET_WEIGHT}, unit : GetWeightUnits,
          response : {MassKResponse(16, w \o <<d, st>>) :
                          w \in MassKRawWeights, d \in MassKDivisions,
                          st \in MassKStatusBytes}]

\* unread bytes, the length asked for and what ends the wait
ReadInputs ==
    [buf : UNION {Prefixes(r) : r \in CasAckReplies \cup CasDataReplies
                                        \cup MassKWeightReplies},
     n : {Len(CAS_CMD_ACK), CAS_RESPONSE_LEN, CmdResponseLen(CMD_GET_WEIGHT)},
     ev : StreamEvents]

\* the response with bit k of its checksum inverted: the BCC byte of a
\* CASType6 response, the two trailing CRC bytes of a MassK1C response
FlipChecksum(driver, response, k) ==
    LET at == IF driver = "CASType6" THEN 13
              ELSE IF k < 8 THEN Len(response) - 1 ELSE Len(response)
    IN  IF at < 1 \/ at > Len(response) THEN response
        ELSE [response EXCEPT ![at] = FlipBit(@, k % 8)]

CheckResponse(driver, command, response) ==
    IF driver = "CASType6" THEN CasCheckResponse(response)
    ELSE MassKCheckResponse(command, response)

\* what the call returns or raises once connector.read has returned response
FinishCall(driver, command, response, unit) ==
    IF driver = "CASType6" THEN CasGetWeight(response, unit)
    ELSE MassKFinish(command, response, unit)

\* _REQUIRED_CONN_PARAMS
RequiredConnParams(connection_type) ==
    IF connection_type = "serial" THEN {"port"} ELSE {"host", "port"}

\* Connector.__init__ with the names of the keyword arguments: the connection
\* parameters it keeps, or the ConfigurationError it raises
ConnectorInit(connection_type, params) ==
    IF connection_type \notin {"serial", "socket"}
        THEN Raise("ConfigurationError", "connection type")
    ELSE IF RequiredConnParams(connection_type) \ params # {}
        THEN Raise("ConfigurationError", "missing")
    ELSE IF connection_type = "serial"
        THEN Ok((params \ {"port"}) \cup {"url"})
    ELSE Ok(params)

\* a connection type, the keyword arguments given and how the first attempt
\* to open ends
ConnectInputs ==
    [connection_type : {"serial", "socket", "usb"},
     params : SUBSET {"host", "port", "url", "baudrate"},
     outcome : OpenOutcomes]

\* get_weight(unit) from its first line on, connector.read returning response
GetWeight(driver, response, unit) ==
    IF driver = "MassK1C" /\ unit \notin RecognizedUnits
        THEN Raise("ValueError", "Invalid measure unit.")
    ELSE FinishCall(driver, CMD_GET_WEIGHT, response, unit)

FnInit(name, inputs) ==
    /\ drv = "CASType6"
    /\ MainInit
    /\ fn = name
    /\ arg \in inputs
    /\ out = << >>
    /\ fleet = << >>

InitFn ==
    \/ FnInit("calc_crc", CrcInputs)
    \/ FnInit("check_response", CheckInputs)
    \/ FnInit("read", ReadInputs)
    \/ FnInit("get_weight", GetWeightInputs)
    \/ FnInit("connect", ConnectInputs)
    \/ FnInit("calc_bcc", CrcInputs)

ApplyCalcCrc ==
    /\ fn = "calc_crc"
    /\ out = << >>
    /\ out' = <<CalcCrc(arg.data)>>
    /\ UNCHANGED <<fn, arg, mainVars, fleet>>

\* check_response on the response, the whole call on the response with one
\* checksum bit inverted, and the message check_response raises
ApplyCheckResponse ==
    /\ fn = "check_response"
    /\ out = << >>
    /\ out' = <<CheckResponse(arg.driver, arg.command, arg.response),
                FinishCall(arg.driver, arg.command,
                           FlipChecksum(arg.driver, arg.response, arg.bit),
                           arg.unit),
                IF arg.driver = "CASType6" THEN CasCheckMessage(arg.response)
                ELSE MassKCheckMessage(arg.command, arg.response)>>
    /\ UNCHANGED <<fn, arg, mainVars, fleet>>

ApplyRead ==
    /\ fn = "read"
    /\ out = << >>
    /\ out' = <<ConnectorRead(arg.buf, arg.n, arg.ev)>>
    /\ UNCHANGED <<fn, arg, mainVars, fleet>>

ApplyGetWeight ==
    /\ fn = "get_weight"
    /\ out = << >>
    /\ out' = <<GetWeight(arg.driver, arg.response, arg.unit)>>
    /\ UNCHANGED <<fn, arg, mainVars, fleet>>

\* Connector(connection_type, timeout, **params), then _open_connection
ApplyConnect ==
    /\ fn = "connect"
    /\ out = << >>
    /\ LET made == ConnectorInit(arg.connection_type, arg.params) IN
       IF made.kind # "ok"
           THEN out' = <<made>> /\ UNCHANGED <<reader, writer, stream>>
       ELSE IF arg.outcome = "ok"
           THEN /\ reader' = StreamReader
                /\ writer' = StreamWriter
                /\ stream' = "open"
                /\ out' = <<made>>
       ELSE out' = <<OpenError(arg.outcome)>> /\ UNCHANGED <<reader, writer, stream>>
    /\ UNCHANGED <<fn, arg, drv, active, waiters, locked, last, rx, owed, fleet>>

\* calc_bcc on the data and on the data followed by itself
ApplyCalcBcc ==
    /\ fn = "calc_bcc"
    /\ out = << >>
    /\ out' = <<CalcBcc(arg.data), CalcBcc(arg.data \o arg.data)>>
    /\ UNCHANGED <<fn, arg, mainVars, fleet>>

NextFn ==
    ApplyCalcCrc \/ ApplyCheckResponse \/ ApplyRead \/ ApplyGetWeight
        \/ ApplyConnect \/ ApplyCalcBcc

SpecFn == InitFn /\ [][NextFn]_vars

(***************************************************************************)
(* Several drivers side by side: main_coro starts one poller per entry of *)
(* its list of devices; every driver has the lock and the connector its   *)
(* constructor built.  An exchange is one step here, up to its return or  *)
(* to the wait in _close_connection.                                       *)
(***************************************************************************)
Devices == 1..NDevices

\* a lock that is an attribute of the class, one for all the instances
SharedLock(d) == 1

\* self.lock = asyncio.Lock(): a lock of the instance's own
NewLock(d) == d

\* self.connector = Connector(...): a connector of the instance's own
NewConnector(d) == d

InitFleet ==
    /\ drv = "CASType6"
    /\ MainInit
    /\ fn = "none"
    /\ arg = << >>
    /\ out = << >>
    /\ \E devices \in [1..MaxPollers -> Devices] :
        fleet = [devices |-> devices,
                 lock |-> [d \in Devices |-> NewLock(d)],
                 connector |-> [d \in Devices |-> NewConnector(d)],
                 locked |-> [l \in Devices |-> FALSE],
                 handle |-> [c \in Devices |-> None],
                 pc |-> [t \in 1..MaxPollers |-> "idle"]]

\* poller t awaits device.get_weight or get_info: async with self.lock
PollerCall(t) ==
    LET l == fleet.lock[fleet.devices[t]] IN
    /\ fleet.pc[t] = "idle"
    /\ fleet' = IF fleet.locked[l]
                    THEN [fleet EXCEPT !.pc[t] = "waiting"]
                    ELSE [fleet EXCEPT !.pc[t] = "exchange", !.locked[l] = TRUE]
    /\ UNCHANGED <<mainVars, fn, arg, out>>

\* the lock has been released and wakes poller t
PollerWake(t) ==
    LET l == fleet.lock[fleet.devices[t]] IN
    /\ fleet.pc[t] = "waiting"
    /\ ~fleet.locked[l]
    /\ fleet' = [fleet EXCEPT !.pc[t] = "exchange", !.locked[l] = TRUE]
    /\ UNCHANGED <<mainVars, fn, arg, out>>

\* the exchange of poller t with its device: it returns or raises with the
\* connection open, or the open fails, or a write fails and the handles are
\* forgotten, or a read fails and _close_connection starts
PollerExchange(t) ==
    LET l == fleet.lock[fleet.devices[t]]
        c == fleet.connector[fleet.devices[t]]
    IN
    /\ fleet.pc[t] = "exchange"
    /\ \/ fleet' = [fleet EXCEPT !.pc[t] = "idle", !.locked[l] = FALSE,
                                  !.handle[c] = "open"]
       \/ /\ fleet.handle[c] = None
          /\ fleet' = [fleet EXCEPT !.pc[t] = "idle", !.locked[l] = FALSE]
       \/ fleet' = [fleet EXCEPT !.pc[t] = "idle", !.locked[l] = FALSE,
                                  !.handle[c] = None]
       \/ fleet' = [fleet EXCEPT !.pc[t] = "closing", !.handle[c] = "open"]
    /\ UNCHANGED <<mainVars, fn, arg, out>>

\* writer.wait_closed() returns: the handles are dropped, read raises
PollerClose(t) ==
    LET l == fleet.lock[fleet.devices[t]]
        c == fleet.connector[fleet.devices[t]]
    IN
    /\ fleet.pc[t] = "closing"
    /\ fleet' = [fleet EXCEPT !.pc[t] = "idle", !.locked[l] = FALSE,
                              !.handle[c] = None]
    /\ UNCHANGED <<mainVars, fn, arg, out>>

NextFleet ==
    \/ \E t \in 1..MaxPollers : PollerCall(t)
    \/ \E t \in 1..MaxPollers : PollerWake(t)
    \/ \E t \in 1..MaxPollers : PollerExchange(t)
    \/ \E t \in 1..MaxPollers : PollerClose(t)

SpecFleet == InitFleet /\ [][NextFleet]_vars

(***************************************************************************)
(* Properties.                                                             *)
(***************************************************************************)
\* C1: on one driver at most one call is inside its command/response
\* exchange at any time and it holds the driver's lock; every other call that
\* has arrived stays in the lock's queue until that exchange is over.
C1_ExchangesNeverInterleave ==
    /\ Len(active) <= 1
    /\ active # << >> => locked

\* a call is between its write and its read while a second call waits
C1_Witness ==
    /\ Len(active) = 1
    /\ active[1].pc \in ReadStages
    /\ reader # None
    /\ waiters # << >>

BadUnitCall(c) == c.name = "get_weight" /\ c.unit \notin RecognizedUnits

\* C2: a get_weight call with an unrecognized unit fails with the
\* invalid-argument error and never gets as far as opening, writing or reading.
C2_BadUnitFailsBeforeIO ==
    /\ \A i \in Frames :
           BadUnitCall(active[i].call) =>
               active[i].pc \notin {"ack", "dc1", "data", "resp", "closing"}
    /\ BadUnitCall(last.call) => last.res.kind = "ValueError"

ReadErrors == {"OSError", "IncompleteReadError"}

OpenErrors == {OpenError(o) : o \in OpenOutcomes \ {"ok"}}

\* C3: when a read that failed with an I/O error surfaces its ConnectorError
\* both handles are absent; a handle is never kept for a transport that is not
\* open except while that close is under way; and a read or write that finds
\* the handle absent does nothing but attempt to open a new connection.
C3_ReadErrorClosesConnection ==
    /\ [][\A i \in Frames :
              active[i].pc = "closing" /\ active' = Remove(active, i) =>
                  /\ last'.res.kind = "ConnectorError"
                  /\ last'.res.why \in ReadErrors
                  /\ reader' = None
                  /\ writer' = None]_vars
    /\ [](reader # None /\ stream # "open" =>
              \E i \in Frames : active[i].pc = "closing")
    /\ [][\A i \in Frames :
              /\ active[i].pc \in ExchangeStages \ {"closing"}
              /\ NeedsOpen(i)
              /\ <<active, connVars>> # <<active, connVars>>'
              => \/ /\ active' = active
                    /\ reader' = StreamReader
                    /\ writer' = StreamWriter
                    /\ stream # "open"
                    /\ stream' = "open"
                 \/ /\ active' = Remove(active, i)
                    /\ last'.res \in OpenErrors
                    /\ UNCHANGED connVars]_vars

\* a read error has surfaced, the handles are gone and the next call is about
\* to write
C3_Witness ==
    /\ last.res.kind = "ConnectorError"
    /\ last.res.why \in ReadErrors
    /\ reader = None
    /\ \E i \in Frames : active[i].pc \in WriteStages /\ NeedsOpen(i)

TimeoutMessages == {"Receive data timeout.", "Data sending timeout."}

\* C4: when a read or a write that timed out surfaces its ConnectorError the
\* connector has been closed: both handles are absent.
C4_TimeoutClosesConnection ==
    [][\A i \in Frames :
           /\ active' = Remove(active, i)
           /\ last'.res.kind = "ConnectorError"
           /\ last'.res.why \in TimeoutMessages
           => reader' = None /\ writer' = None]_vars

\* C5: the reader handle is absent exactly when the writer handle is.
C5_NeverHalfOpen == (reader = None) <=> (writer = None)

\* a write has failed on a connection that was open: its transport is left
\* behind and both handles are absent
C5_Witness ==
    /\ reader = None
    /\ writer = None
    /\ stream = "abandoned"
    /\ last.res = Raise("ConnectorError", "write")

(***************************************************************************)
(* Reference CRCs, bit by bit.                                             *)
(***************************************************************************)
\* CRC-16/CCITT (XMODEM): polynomial 0x1021, initial value 0, the most
\* significant bit first, the byte entering at the top of the register
RECURSIVE CcittBits(_, _)
CcittBits(crc, n) ==
    IF n = 0 THEN crc
    ELSE CcittBits(IF Bit(crc, 15) = 1 THEN Xor((crc * 2) % WORD, POLY)
                   ELSE (crc * 2) % WORD,
                   n - 1)

RECURSIVE CcittCrc(_, _, _)
CcittCrc(data, i, crc) ==
    IF i > Len(data) THEN crc
    ELSE CHOOSE r \in {CcittCrc(data, i + 1, c) :
                           c \in {CcittBits(Xor(crc, data[i] * 256), 8)}} : TRUE

\* the remainder of the message itself, not multiplied by x^16, modulo
\* x^16 + x^12 + x^5 + 1: the message bits enter at the bottom of the register
RECURSIVE RemainderBits(_, _, _)
RemainderBits(crc, byte, k) ==
    IF k < 0 THEN crc
    ELSE RemainderBits(IF Bit(crc, 15) = 1
                           THEN Xor(((crc * 2) % WORD) + Bit(byte, k), POLY)
                           ELSE ((crc * 2) % WORD) + Bit(byte, k),
                       byte, k - 1)

RECURSIVE Remainder(_, _, _)
Remainder(data, i, crc) ==
    IF i > Len(data) THEN crc
    ELSE CHOOSE r \in {Remainder(data, i + 1, c) :
                           c \in {RemainderBits(crc, data[i], 7)}} : TRUE

CrcApplied == fn = "calc_crc" /\ out # << >>

\* C6 as stated: calc_crc returns the CRC-16/CCITT of its input, low byte first.
C6_CrcIsCcitt ==
    CrcApplied => out[1] = ToBytesLE2(CcittCrc(arg.data, 1, 0))

\* C6: calc_crc returns, low byte first, the remainder of the input modulo
\* 0x11021 without the x^16 augmentation; it is the CRC-16/CCITT of the input
\* less its last two bytes whenever those two bytes are zero.
C6_CrcIsPlainRemainder ==
    CrcApplied =>
        /\ out[1] = ToBytesLE2(Remainder(arg.data, 1, 0))
        /\ Len(arg.data) >= 2 /\ PySliceFrom(arg.data, -2) = <<0, 0>> =>
               out[1] = ToBytesLE2(CcittCrc(PySlice(arg.data, 0, -2), 1, 0))

\* calc_crc applied to a byte followed by two zero bytes, where it differs
\* from the CRC-16/CCITT of the same three bytes
C6_Witness ==
    /\ CrcApplied
    /\ Len(arg.data) = 3
    /\ arg.data[1] # 0
    /\ PySliceFrom(arg.data, -2) = <<0, 0>>
    /\ out[1] # ToBytesLE2(CcittCrc(arg.data, 1, 0))

StatedFrame(command) ==
    LET data == HEADER \o ToBytesLE2(Len(command)) \o command
    IN  data \o CalcCrc(data)

\* C7: every request a MassK1C driver sends is F8 55 CE, the length of the
\* command as two bytes low byte first (01 00), the command byte and the CRC
\* of all the bytes before it.
C7_RequestFrameLayout ==
    drv = "MassK1C" =>
        \A k \in 1..Len(owed) : owed[k] \in {StatedFrame(c) : c \in Commands}

CheckApplied == fn = "check_response" /\ out # << >>

\* C8: when a response passes check_response, the same response with any one
\* bit of its checksum inverted makes the call fail with ScalesError at the
\* checksum comparison.
C8_ChecksumBitFlipRejected ==
    CheckApplied /\ out[1].kind = "ok" =>
        /\ FlipChecksum(arg.driver, arg.response, arg.bit) # arg.response
        /\ out[2].kind = "ScalesError"
        /\ out[2].why \in {"bcc", "CRC"}

\* a full-length MassK1C weight response that passes, with a bit of the high
\* CRC byte inverted
C8_Witness ==
    /\ CheckApplied
    /\ arg.driver = "MassK1C"
    /\ Len(arg.response) = CmdResponseLen(arg.command)
    /\ arg.bit >= 8
    /\ out[1].kind = "ok"
    /\ out[2] = Raise("ScalesError", "CRC")

ExpectedLen(driver, command) ==
    IF driver = "CASType6" THEN CAS_RESPONSE_LEN ELSE CmdResponseLen(command)

\* C9: check_response of either driver rejects every response shorter than
\* the expected length (15, or 14 and 34) with ScalesError.
C9_ShortResponseRejected ==
    CheckApplied /\ Len(arg.response) < ExpectedLen(arg.driver, arg.command) =>
        out[1].kind = "ScalesError"

ReadApplied == fn = "read" /\ out # << >>

\* C10: Connector.read(n) returns exactly the first n unread bytes or raises
\* ConnectorError; with fewer than n bytes before the end of the stream or the
\* timeout it raises and returns nothing.
C10_ReadAllOrNothing ==
    ReadApplied =>
        /\ out[1].res.kind \in {"ok", "ConnectorError"}
        /\ out[1].res.kind = "ok" =>
               /\ Len(out[1].res.val) = arg.n
               /\ out[1].res.val = SubSeq(arg.buf, 1, arg.n)
        /\ Len(arg.buf) < arg.n =>
               out[1].res.kind = "ConnectorError" /\ out[1].res.val = << >>

\* the stream ended after a part of the 15 bytes had arrived
C10_Witness ==
    /\ ReadApplied
    /\ arg.ev = "eof"
    /\ arg.n = CAS_RESPONSE_LEN
    /\ Len(arg.buf) > 0
    /\ Len(arg.buf) < arg.n
    /\ out[1].res = Raise("ConnectorError", "IncompleteReadError")

\* a request reaches the device in this step
Delivered == owed' # owed /\ Len(owed') >= Len(owed)

\* frame i of a CASType6 driver reads the byte that answers its ENQ
AckRead(i) ==
    /\ drv = "CASType6"
    /\ active[i].pc = "ack"
    /\ reader # None
    /\ rx # << >>
    /\ rx' = Tail(rx)

\* C11: in a CASType6 exchange DC1 is written only by a call whose one-byte
\* read after ENQ returned ACK (06); when that byte is anything else the call
\* ends there with ScalesError: nothing more is written (no DC1, no second
\* ENQ) and the 15 bytes are not read.
C11_Dc1OnlyAfterAck ==
    [][/\ \A i \in Frames :
              /\ Len(active') >= i
              /\ active'[i].pc = "dc1"
              /\ active'[i] # active[i]
              => AckRead(i) /\ <<Head(rx)>> = CAS_CMD_ACK
       /\ Delivered /\ owed'[Len(owed')] = CAS_CMD_DC1 =>
              \E i \in Frames : active[i].pc = "dc1"
       /\ \A i \in Frames :
              AckRead(i) /\ <<Head(rx)>> # CAS_CMD_ACK =>
                  /\ active' = Remove(active, i)
                  /\ last' = [call |-> active[i].call,
                              res |-> Raise("ScalesError", "ACK")]
                  /\ owed' = owed
                  /\ Len(rx') = Len(rx) - Len(CAS_CMD_ACK)]_vars

\* the scale answered ENQ with NAK: the call has failed and the scale was
\* sent no DC1
C11_Witness ==
    /\ drv = "CASType6"
    /\ last.call.name = "get_weight"
    /\ last.res = Raise("ScalesError", "ACK")
    /\ \A k \in 1..Len(owed) : owed[k] # CAS_CMD_DC1
    /\ rx = << >>

(***************************************************************************)
(* Reference arithmetic on weights: the stated ratios as whole numbers of *)
(* ten-thousandths of a gram, and products compared digit by digit.       *)
(***************************************************************************)
StatedRatio(unit) ==
    IF unit = UNIT_GR THEN 10000
    ELSE IF unit = UNIT_KG THEN 10000000
    ELSE IF unit = UNIT_LB THEN 4535920
    ELSE 283495

\* 0.1 g, 1 g, 10 g, 100 g and 1 kg for the division indexes 0..4
StatedFactor(division) == 1000 * 10 ^ division

\* int(a) <= int(b)
BigLeq(a, b) ==
    LET x == StripLeading(a)
        y == StripLeading(b)
        diff == {i \in 1..Len(x) : x[i] # y[i]}
    IN  IF Len(x) # Len(y) THEN Len(x) < Len(y)
        ELSE diff = {} \/ LET k == CHOOSE i \in diff : \A j \in diff : i <= j
                          IN  x[k] < y[k]

Twice(a) == BigAdd(a, a)

GetWeightApplied == fn = "get_weight" /\ out # << >>

\* the weight of a reading
WeightOf(val) == Dec(val[2], SubSeq(val, 4, Len(val)), val[3])

\* weight * to = (-1)^sign * int(n) * 10^en * from
IsExactQuotient(weight, sign, n, en, from, to) ==
    LET e == Min(weight.exp, en)
        a == MulSmall(weight.int, to) \o Zeros(weight.exp - e)
        b == MulSmall(n, from) \o Zeros(en - e)
    IN  /\ StripLeading(a) = StripLeading(b)
        /\ weight.sign = sign

\* weight has at most PREC digits and lies within half a unit of its last
\* digit of (-1)^sign * int(n) * 10^en * from / to
IsRoundedQuotient(weight, sign, n, en, from, to) ==
    LET e == Min(weight.exp, en)
        a == MulSmall(weight.int, to) \o Zeros(weight.exp - e)
        b == MulSmall(n, from) \o Zeros(en - e)
        h == DigitsOf(to) \o Zeros(weight.exp - e)
    IN  /\ Len(weight.int) <= PREC
        /\ weight.sign = sign
        /\ BigLeq(Twice(a), BigAdd(Twice(b), h))
        /\ BigLeq(Twice(b), BigAdd(Twice(a), h))

\* the unit table as stated: space+g, g+space, kg, lb, oz
StatedCasUnit(code) ==
    IF code \in {<<32, 103>>, <<103, 32>>} THEN UNIT_GR
    ELSE IF code = <<107, 103>> THEN UNIT_KG
    ELSE IF code = <<108, 98>> THEN UNIT_LB
    ELSE IF code = <<111, 122>> THEN UNIT_OZ
    ELSE -1

CasPayloadOf(response) == PySlice(response, 2, 12)

\* get_weight has run on a validated CASType6 payload with status 'S' or 'U',
\* a unit code of the table and a weight field that is a number
CasWeightDecoded ==
    /\ GetWeightApplied
    /\ arg.driver = "CASType6"
    /\ arg.unit \in RecognizedUnits
    /\ CasPayloadOf(arg.response)[1] \in {83, 85}
    /\ StatedCasUnit(PySlice(CasPayloadOf(arg.response), 8, 10)) \in RecognizedUnits
    /\ ParseDecimal(PySlice(CasPayloadOf(arg.response), 1, 8)).kind = "number"

CasStatedStatus(code) == IF code = 83 THEN STATUS_STABLE ELSE STATUS_UNSTABLE

\* C12 as stated: the weight get_weight returns is exactly the decoded weight
\* times the ratio of the decoded unit divided by the ratio of the requested
\* unit, with status stable for 'S' and unstable for 'U'.
C12_ConversionIsExact ==
    CasWeightDecoded =>
        LET payload == CasPayloadOf(arg.response)
            w == ParseDecimal(PySlice(payload, 1, 8))
        IN  /\ out[1].kind = "ok"
            /\ out[1].val[1] = CasStatedStatus(payload[1])
            /\ IsExactQuotient(WeightOf(out[1].val), w.sign, DigitsOf(w.coef),
                               -w.places,
                               StatedRatio(StatedCasUnit(PySlice(payload, 8, 10))),
                               StatedRatio(arg.unit))

\* C12: the weight get_weight returns is the decoded weight times the ratio
\* of the decoded unit divided by the ratio of the requested unit, rounded to
\* 28 significant digits; it is exact when the requested unit is gram or
\* kilogram or the decoded unit; the status is stable for 'S' and unstable
\* for 'U'.
C12_ConversionIsRounded ==
    CasWeightDecoded =>
        LET payload == CasPayloadOf(arg.response)
            w == ParseDecimal(PySlice(payload, 1, 8))
            from == StatedCasUnit(PySlice(payload, 8, 10))
        IN  /\ out[1].kind = "ok"
            /\ out[1].val[1] = CasStatedStatus(payload[1])
            /\ IsRoundedQuotient(WeightOf(out[1].val), w.sign, DigitsOf(w.coef),
                                 -w.places, StatedRatio(from),
                                 StatedRatio(arg.unit))
            /\ arg.unit \in {UNIT_GR, UNIT_KG, from} =>
                   IsExactQuotient(WeightOf(out[1].val), w.sign, DigitsOf(w.coef),
                                   -w.places, StatedRatio(from),
                                   StatedRatio(arg.unit))

\* " 12.345" kg asked for in pounds: the quotient has no finite expansion and
\* comes back with 28 digits
C12_Witness ==
    /\ CasWeightDecoded
    /\ CasPayloadOf(arg.response) = CasStablePayload
    /\ arg.unit = UNIT_LB
    /\ out[1].kind = "ok"
    /\ out[1].val[1] = STATUS_STABLE
    /\ Len(WeightOf(out[1].val).int) = PREC

\* get_weight has run on a validated response whose status byte is none of
\* the two that stand for a stable or an unstable reading
OverloadDecoded ==
    /\ GetWeightApplied
    /\ \/ /\ arg.driver = "CASType6"
          /\ CasPayloadOf(arg.response)[1] \notin {83, 85}
       \/ /\ arg.driver = "MassK1C"
          /\ arg.unit \in RecognizedUnits
          /\ arg.response[12] \notin {0, 1}

\* C13: for both drivers a validated response whose status byte decodes to
\* overload (CASType6: any byte but 53 and 55; MassK1C: any value but 0 and
\* 1) makes get_weight return weight 0 with status overload, whatever the
\* weight field, the unit code or the division index contain.
C13_OverloadReturnsZero ==
    OverloadDecoded =>
        /\ out[1].kind = "ok"
        /\ out[1].val[1] = STATUS_OVERLOAD
        /\ WeightOf(out[1].val) = Dec(0, <<0>>, 0)

\* an overloaded CASType6 scale sends dashes for the weight and an unknown
\* unit code; an overloaded MassK1C scale an unknown division index
C13_Witness ==
    /\ OverloadDecoded
    /\ out[1].kind = "ok"
    /\ \/ /\ arg.driver = "CASType6"
          /\ PySlice(CasPayloadOf(arg.response), 1, 10)
                 = <<45, 45, 45, 45, 45, 45, 45, 63, 63>>
       \/ /\ arg.driver = "MassK1C"
          /\ arg.response[11] = 255

\* the fields of a MassK1C GET_WEIGHT response as stated: after the header,
\* the length and the acknowledgement come the weight (4 bytes), the
\* division index and the status
MassKRawOf(response) ==
    response[7] + 256 * response[8] + 65536 * response[9]
        + 16777216 * (response[10] - (IF response[10] >= 128 THEN 256 ELSE 0))

MassKDivisionOf(response) == response[11]

MassKStatusOf(response) == response[12]

Abs(n) == IF n < 0 THEN -n ELSE n

\* get_weight has run on a GET_WEIGHT response with the header, a matching
\* CRC, the acknowledgement 10 and status 0 or 1
MassKWeightDecoded ==
    /\ GetWeightApplied
    /\ arg.driver = "MassK1C"
    /\ arg.unit \in RecognizedUnits
    /\ Len(arg.response) = CmdResponseLen(CMD_GET_WEIGHT)
    /\ PySlice(arg.response, 0, 3) = HEADER
    /\ arg.response[6] = 16
    /\ MassKStatusOf(arg.response) \in {0, 1}

MassKStatedStatus(code) == IF code = 1 THEN STATUS_STABLE ELSE STATUS_UNSTABLE

\* C14 as stated: a well-formed GET_WEIGHT response with a division index in
\* 0..4 decodes without error to exactly raw * factor / ratio of the unit
\* asked for, unstable for status 0 and stable for 1; a division index
\* outside 0..4 fails with ScalesError.
C14_DecodeIsExact ==
    MassKWeightDecoded =>
        LET raw == MassKRawOf(arg.response)
            division == MassKDivisionOf(arg.response)
        IN  IF division \in 0..4
                THEN /\ out[1].kind = "ok"
                     /\ out[1].val[1] = MassKStatedStatus(MassKStatusOf(arg.response))
                     /\ IsExactQuotient(WeightOf(out[1].val),
                                        IF raw < 0 THEN 1 ELSE 0,
                                        DigitsOf(Abs(raw)), 0,
                                        StatedFactor(division),
                                        StatedRatio(arg.unit))
            ELSE out[1].kind = "ScalesError"

\* C14: a well-formed GET_WEIGHT response with a division index in 0..4
\* decodes without error to raw * factor / ratio of the unit asked for,
\* rounded to 28 significant digits and exact for gram and kilogram, unstable
\* for status 0 and stable for 1; a division index outside 0..4 fails with
\* ScalesError.
C14_DecodeIsRounded ==
    MassKWeightDecoded =>
        LET raw == MassKRawOf(arg.response)
            division == MassKDivisionOf(arg.response)
            sign == IF raw < 0 THEN 1 ELSE 0
        IN  IF division \in 0..4
                THEN /\ out[1].kind = "ok"
                     /\ out[1].val[1] = MassKStatedStatus(MassKStatusOf(arg.response))
                     /\ IsRoundedQuotient(WeightOf(out[1].val), sign,
                                          DigitsOf(Abs(raw)), 0,
                                          StatedFactor(division),
                                          StatedRatio(arg.unit))
                     /\ arg.unit \in {UNIT_GR, UNIT_KG} =>
                            IsExactQuotient(WeightOf(out[1].val), sign,
                                            DigitsOf(Abs(raw)), 0,
                                            StatedFactor(division),
                                            StatedRatio(arg.unit))
            ELSE out[1] = Raise("ScalesError", "division cost")

\* -5 divisions of 0.1 g asked for in kilograms: -0.0005, unstable
C14_Witness ==
    /\ MassKWeightDecoded
    /\ MassKRawOf(arg.response) = -5
    /\ MassKDivisionOf(arg.response) = 0
    /\ MassKStatusOf(arg.response) = 0
    /\ arg.unit = UNIT_KG
    /\ out[1] = Ok(<<STATUS_UNSTABLE, 1, -4, 5>>)

\* how far into its exchange a call is
StageRank(stage) ==
    IF stage \in {"enq", "req"} THEN 1
    ELSE IF stage \in {"ack", "resp"} THEN 2
    ELSE IF stage = "dc1" THEN 3
    ELSE IF stage = "data" THEN 4
    ELSE 5

\* C15: neither the connector nor the driver retries or caches.  A call
\* attempts to open the connection only at its first write, where a failure
\* ends it; every step either leaves a call where it is, moves it on to a
\* later stage or ends it, and a step that writes a request always moves it on
\* or ends it, so no frame is written twice; what a call takes out of its
\* exchange are the bytes its own last read took from the stream, and the
\* value it returns is decoded from these.
C15_NoRetryNoCache ==
    /\ [](\A i \in Frames : NeedsOpen(i) => active[i].pc = FirstStage)
    /\ [][\/ /\ active' = active
             /\ ~Delivered
             /\ Running =>
                    /\ last'.call = last.call
                    /\ last'.res.kind = "ok" =>
                           last'.res = IF drv = "CASType6"
                                           THEN FinishCall(drv, << >>, last.res.val,
                                                           last.call.unit)
                                       ELSE MassKDecode(Command(last.call),
                                                        last.res.val, last.call.unit)
          \/ \E c \in CallArgs : active' = Append(active, NewFrame(c)) /\ ~Delivered
          \/ \E i \in Frames :
                 /\ active' = Remove(active, i)
                 /\ last'.call = active[i].call
                 /\ Delivered => active[i].pc \in WriteStages
                 /\ last'.res.kind # "ok"
                 /\ Running' =>
                        LET n == ReadLen(active[i]) IN
                        /\ active[i].pc \in {"data", "resp"}
                        /\ Len(rx) >= n
                        /\ rx' = SubSeq(rx, n + 1, Len(rx))
                        /\ last'.res.val = IF drv = "CASType6" THEN SubSeq(rx, 1, n)
                                           ELSE SubSeq(rx, 6, n - 2)
          \/ \E i \in Frames :
                 /\ Len(active') = Len(active)
                 /\ \A j \in Frames \ {i} : active'[j] = active[j]
                 /\ active'[i].call = active[i].call
                 /\ StageRank(active'[i].pc) > StageRank(active[i].pc)
                 /\ Delivered => /\ active[i].pc \in WriteStages
                                 /\ owed'[Len(owed')] = WriteData(active[i])]_vars

\* a call wrote its request once, waited for the answer until the timeout and
\* failed: the request is still the only one the device has
C15_Witness ==
    /\ active = << >>
    /\ waiters = << >>
    /\ last.res = Raise("ConnectorError", "Receive data timeout.")
    /\ owed = <<WriteData(NewFrame(last.call))>>
    /\ rx = << >>

\* C16: the device lock is released on every exit path: a step in which a
\* call returns or raises, whatever the exception and at whatever stage,
\* leaves the lock free, and the lock is held only while a call is inside its
\* exchange.
C16_LockReleasedOnExit ==
    /\ [][\A i \in Frames :
              active' = Remove(active, i) => ~locked']_vars
    /\ [](locked => active # << >>)

\* a call has failed with ScalesError while another waits for the lock, which
\* is free
C16_Witness ==
    /\ last.res.kind = "ScalesError"
    /\ active = << >>
    /\ waiters # << >>
    /\ ~locked

ConnectApplied == fn = "connect" /\ out # << >>

\* the parameters each kind of connection requires, as stated
StatedRequired(connection_type) ==
    IF connection_type = "serial" THEN {"port"}
    ELSE IF connection_type = "socket" THEN {"host", "port"}
    ELSE {}

BccApplied == fn = "calc_bcc" /\ out # << >>

\* bit k of the XOR of the bytes of p: whether an odd number of them have it
ParityBit(p, k) == Cardinality({i \in 1..Len(p) : Bit(p[i], k) = 1}) % 2

RECURSIVE XorOfAll(_, _)
XorOfAll(p, k) ==
    IF k < 0 THEN 0 ELSE ParityBit(p, k) * 2 ^ k + XorOfAll(p, k - 1)

\* C18: calc_bcc(p) is the one byte that is the XOR of all the bytes of p, and
\* the BCC of p followed by p is 0.
C18_BccIsXor ==
    BccApplied =>
        /\ out[1] = <<XorOfAll(arg.data, 7)>>
        /\ out[2] = <<0>>

\* three different bytes whose BCC is not 0
C18_Witness ==
    /\ BccApplied
    /\ Len(arg.data) = 3
    /\ arg.data[1] # arg.data[2]
    /\ arg.data[2] # arg.data[3]
    /\ out[1] # <<0>>
    /\ out[2] = <<0>>

\* the response has 01 02 in front, 03 04 at bytes 13 and 14 and at byte 12
\* the XOR of bytes 2..11
CasWellFormed(r) ==
    /\ Len(r) >= CAS_RESPONSE_LEN
    /\ r[1] = 1 /\ r[2] = 2
    /\ r[14] = 3 /\ r[15] = 4
    /\ r[13] = XorOfAll(SubSeq(r, 3, 12), 7)

\* C19: CASType6.check_response returns the 10-byte payload (bytes 2..11) if
\* and only if bytes 0..1 are 01 02, bytes 13..14 are 03 04 and byte 12 is the
\* XOR of bytes 2..11; otherwise it raises ScalesError and the call returns
\* no weight, unit or status.
C19_CasCheckResponse ==
    CheckApplied /\ arg.driver = "CASType6" =>
        IF CasWellFormed(arg.response)
            THEN out[1] = Ok(SubSeq(arg.response, 3, 12))
            ELSE /\ out[1].kind = "ScalesError"
                 /\ out[1].val = << >>
                 /\ CasGetWeight(arg.response, arg.unit) = out[1]

\* a whole response with the right wrap and one bit of the BCC wrong
C19_Witness ==
    /\ CheckApplied
    /\ arg.driver = "CASType6"
    /\ PySlice(arg.response, 0, 2) \o PySlice(arg.response, 13, 15) = RESPONSE_WRAP
    /\ out[1] = Raise("ScalesError", "bcc")

\* the response starts with F8 55 CE, its last two bytes are the CRC, low
\* byte first, of the bytes from offset first up to them, and byte 5 is the
\* acknowledgement of the command
MassKWellFormed(r, command, first) ==
    /\ Len(r) >= 3
    /\ SubSeq(r, 1, 3) = <<248, 85, 206>>
    /\ SubSeq(r, Len(r) - 1, Len(r))
           = ToBytesLE2(Remainder(SubSeq(r, first + 1, Len(r) - 2), 1, 0))
    /\ Len(r) >= 6
    /\ r[6] = (IF command = CMD_POLL THEN 1 ELSE 16)

MassKCheckApplied == CheckApplied /\ arg.driver = "MassK1C"

IsAsciiNumber(field) ==
    LET t == RStrip(LStrip(field))
        u == IF t # << >> /\ t[1] \in {43, 45} THEN Tail(t) ELSE t
    IN  /\ \A k \in 1..Len(field) : field[k] < 128
        /\ \E i \in 0..Len(u), dot \in {0, 1}, j \in 0..Len(u) :
            /\ i + dot + j <= Len(u)
            /\ i + j >= 1
            /\ dot = 0 => j = 0
            /\ AllDigits(SubSeq(u, 1, i))
            /\ dot = 1 => u[i + 1] = 46
            /\ AllDigits(SubSeq(u, i + dot + 1, i + dot + j))
            /\ LET rest == SubSeq(u, i + dot + j + 1, Len(u))
                   digits == IF Len(rest) >= 2 /\ rest[2] \in {43, 45}
                             THEN SubSeq(rest, 3, Len(rest))
                             ELSE SubSeq(rest, 2, Len(rest))
               IN  \/ rest = << >>
                   \/ /\ rest[1] \in {69, 101}
                      /\ digits # << >>
                      /\ AllDigits(digits)

\* get_weight has run, for a unit it knows, on a validated CASType6 payload
\* with status 'S' or 'U' whose unit code is not of the table or whose weight
\* field is not a number
CasBadFieldDecoded ==
    /\ GetWeightApplied
    /\ arg.driver = "CASType6"
    /\ arg.unit \in RecognizedUnits
    /\ CasPayloadOf(arg.response)[1] \in {83, 85}
    /\ \/ StatedCasUnit(PySlice(CasPayloadOf(arg.response), 8, 10))
              \notin RecognizedUnits
       \/ ~IsAsciiNumber(PySlice(CasPayloadOf(arg.response), 1, 8))

\* C21: for a validated CASType6 payload with status stable or unstable,
\* get_weight fails with ScalesError whenever the unit code is none of the
\* five table entries or the weight field is not an ASCII decimal number (a
\* field with a non-ASCII byte or a non-numeric token included); it returns no
\* weight derived from such a field.
C21_BadFieldFailsWithScalesError ==
    CasBadFieldDecoded => out[1].kind = "ScalesError"

(***************************************************************************)
(* C22: what the messages of check_response report.                        *)
(***************************************************************************)
\* the value of a hexadecimal digit given as a character code
HexValue(c) == IF c >= 97 THEN c - 87 ELSE c - 48

\* the bytes a text of colon-separated pairs of hexadecimal digits stands for
RECURSIVE Unhex(_)
Unhex(text) ==
    IF Len(text) < 2 THEN << >>
    ELSE <<16 * HexValue(text[1]) + HexValue(text[2])>>
             \o Unhex(SubSeq(text, 4, Len(text)))

\* what the response holds and what the driver expected or computed, for the
\* check named by subject
StatedReceived(driver, subject, r) ==
    IF driver = "CASType6"
        THEN IF subject = "packet wrap" THEN PySlice(r, 0, 2) \o PySlice(r, 13, 15)
             ELSE PySlice(r, 12, 13)
    ELSE IF subject = "header" THEN PySlice(r, 0, 3)
    ELSE IF subject = "CRC" THEN PySliceFrom(r, -2)
    ELSE PySlice(r, 5, 6)

StatedExpected(driver, subject, command, r) ==
    IF driver = "CASType6"
        THEN IF subject = "packet wrap" THEN <<1, 2, 3, 4>>
             ELSE <<XorOfAll(PySlice(r, 2, 12), 7)>>
    ELSE IF subject = "header" THEN <<248, 85, 206>>
    ELSE IF subject = "CRC" THEN ToBytesLE2(Remainder(PySlice(r, 5, -2), 1, 0))
    ELSE IF command = CMD_POLL THEN <<1>>
    ELSE <<16>>

\* C22: every ScalesError of response validation carries both values, the
\* one taken from the response as received and the one the driver expected
\* or computed as expected, hex-encoded; for a CASType6 BCC mismatch the
\* received value is response byte 12 and the expected value is the XOR
\* computed over the payload.
C22_ReceivedIsFromResponse ==
    CheckApplied /\ out[1].kind = "ScalesError" =>
        /\ out[3].subject = out[1].why
        /\ Unhex(out[3].received)
               = StatedReceived(arg.driver, out[1].why, arg.response)
        /\ Unhex(out[3].expected)
               = StatedExpected(arg.driver, out[1].why, arg.command, arg.response)

(***************************************************************************)
(* C23: how long a call holds the device lock.                             *)
(***************************************************************************)
\* C23 as stated: the lock is not released before the response of the call
\* has been validated and decoded (or the call has failed).
C23_LockHeldUntilDecoded == Running => locked

\* C23: the lock is held for the exchange of a call, from its first write to
\* the end of its last read, and by MassK1C through the validation of the
\* response as well; it is released before CASType6 validates the response
\* and before either driver decodes the payload, which the call does without
\* suspending: no other call of the driver enters the exchange, is queued or
\* touches the connection before the call has its result.
C23_LockHeldThroughExchange ==
    /\ [](active # << >> => locked)
    /\ [][\A i \in Frames :
              active' = Remove(active, i) /\ Running' =>
                  /\ locked
                  /\ ~locked'
                  /\ drv = "CASType6" =>
                         /\ active[i].pc = "data"
                         /\ last'.res = Returned("response", SubSeq(rx, 1, CAS_RESPONSE_LEN))
                  /\ drv = "MassK1C" =>
                         LET n == CmdResponseLen(Command(active[i].call)) IN
                         /\ active[i].pc = "resp"
                         /\ MassKWellFormed(SubSeq(rx, 1, n), Command(active[i].call), 5)
                         /\ last'.res = Returned("payload", SubSeq(rx, 6, n - 2))]_vars
    /\ [][Running =>
              /\ UNCHANGED <<active, waiters, locked, reader, writer, stream>>
              /\ last' # last => last'.call = last.call /\ ~Running']_vars

\* a call has left the lock with a response it has not validated yet while
\* another call waits for the lock
C23_Witness ==
    /\ Running
    /\ last.res.kind = "response"
    /\ ~locked
    /\ waiters # << >>

(***************************************************************************)
(* C24: when the connection is opened.                                     *)
(***************************************************************************)
\* this step attempts to open a connection: it ends with a stream that was
\* not open before, or with a call failing the way _open_connection fails
OpenAttempt ==
    \/ stream # "open" /\ stream' = "open"
    \/ last' # last /\ last'.res \in OpenErrors

\* C24: the connection is opened lazily and reused.  Until a call has got
\* as far as a read or write the handles are absent and no stream exists;
\* an attempt to open is made only in a read or write that finds its handle
\* absent; and while the handle is present no attempt is made: reads and
\* writes leave the stream and its unread bytes in place.
C24_OpensLazilyAndReuses ==
    /\ [](active = << >> /\ last.call = NoCall =>
              reader = None /\ writer = None /\ stream = "none")
    /\ [][OpenAttempt => \E i \in Frames : NeedsOpen(i)]_vars
    /\ [][reader # None =>
              /\ ~OpenAttempt
              /\ reader' # None /\ UNCHANGED <<active, last>> =>
                     Len(rx') >= Len(rx)]_vars

\* a call has returned a reading and the next call has written its request
\* on the stream that is still open
C24_Witness ==
    /\ last.res.kind = "ok"
    /\ last.call.name = "get_weight"
    /\ reader # None
    /\ stream = "open"
    /\ \E i \in Frames : active[i].pc \in ReadStages

(***************************************************************************)
(* C26: whose reply a call reads.                                          *)
(***************************************************************************)
\* frame i takes the bytes it asked for out of the stream in this step
TakesBytes(i) ==
    /\ active[i].pc \in ReadStages
    /\ reader # None
    /\ Len(rx) >= ReadLen(active[i])
    /\ rx' = SubSeq(rx, ReadLen(active[i]) + 1, Len(rx))
    /\ active' # active

\* C26: the bytes a call validates and decodes are bytes the device sent in
\* reply to that call's own request: after the exchange before it ended in a
\* read timeout, a call takes no bytes out of the stream while the request it
\* wrote last is still unanswered, so a late reply to the earlier request is
\* never read as its response.
C26_ReadsOwnReply ==
    [][\A i \in Frames :
           /\ TakesBytes(i)
           /\ last.res = Raise("ConnectorError", "Receive data timeout.")
           => owed = << >>]_vars

(***************************************************************************)
(* C27: streams the connector leaves behind.                               *)
(***************************************************************************)
\* C27: the connector never leaks an open stream: whenever its handles are
\* absent, after a failure in read or in write, the stream they referred to
\* has been closed, so that at most one stream it opened is open at a time.
C27_NoStreamLeaked ==
    reader = None /\ writer = None => stream = "none"

(***************************************************************************)
(* C29: protocol failures and the transport.                               *)
(***************************************************************************)
\* C29: a protocol-level failure leaves the transport untouched: in the step
\* in which a call fails with ScalesError (ACK refused, wrap, checksum,
\* header, acknowledgement, unit, weight or division) the connector keeps its
\* handles and the open stream they refer to, nothing is closed or reopened
\* and no unread byte is dropped beyond the response read; and
\* CASType6.get_info returns the name without any connector operation, lock
\* or queueing.
C29_ScalesErrorKeepsTransport ==
    /\ [][last' # last /\ last'.res.kind = "ScalesError" =>
              /\ reader = StreamReader
              /\ writer = StreamWriter
              /\ stream = "open"
              /\ UNCHANGED <<reader, writer, stream, owed>>
              /\ \/ rx' = rx
                 \/ \E i \in Frames : TakesBytes(i)]_vars
    /\ [][/\ last' # last
          /\ drv = "CASType6"
          /\ last'.call.name = "get_info"
          => /\ last'.res.kind = "ok"
             /\ UNCHANGED <<connVars, active, waiters, locked>>]_vars

\* a CASType6 response has been refused for its checksum and the connection
\* is open as before
C29_Witness ==
    /\ last.res = Raise("ScalesError", "bcc")
    /\ reader = StreamReader
    /\ writer = StreamWriter
    /\ stream = "open"

(***************************************************************************)
(* C28: termination under the device lock.                                 *)
(***************************************************************************)
\* C28: every call that holds the device lock eventually returns or raises
\* and releases it, whatever the device and the transport do, so that a call
\* waiting for the lock eventually acquires it.
C28_EveryCallReleasesLock ==
    locked ~> ~locked

(***************************************************************************)
(* C25: drivers of different devices.                                      *)
(***************************************************************************)
\* the pollers of device d
PollersOf(d) == {t \in 1..MaxPollers : fleet.devices[t] = d}

====
